---- MODULE Spec2Model ----
(***************************************************************************)
(* Model of src/app.py: a Streamlit page that filters stocks by index      *)
(* membership, suggests tickers for a search term and draws a Renko chart  *)
(* for the resolved ticker.                                                *)
(*                                                                         *)
(* Strings are sequences of one-character strings, so that strip, upper,   *)
(* endswith, split and the substring test are computed, not assumed.       *)
(* A Python optional is a sequence of length 0 (None) or 1.                *)
(* Prices are integers; a brick size is an exact fraction num/den.         *)
(***************************************************************************)
EXTENDS Integers, Sequences, FiniteSets, TLC

VARIABLES
    all_checked, nifty_50_checked, nifty_100_checked, nifty_200_checked,
    nifty_500_checked, nifty_defense_checked,  \* the six checkboxes
    available,           \* available_stocks as computed by the last run
    search_input,        \* raw text held by the text_input widget
    selected_stock,      \* st.session_state.selected_stock
    suggestions,         \* suggestion buttons drawn by the last run, in order
    stock_to_plot,       \* ticker resolved by the last run (<<>> if no trigger)
    validation_error,    \* the last run drew the "valid stock" error
    tagged,              \* optional list of index names written by the last run
    fetch_args,          \* tickers passed to fetch_and_plot_renko by the last run
    download,            \* what yf.download did in that call
    plot_outcome,        \* what mpf.plot / savefig did (or would do) in that call
    fetch_result,        \* the pair returned by fetch_and_plot_renko
    plot_calls,          \* arguments of every mpf.plot call of the last run
    image_shown,         \* st.image was called
    error_shown,         \* optional message passed to st.error at line 201
    crashed              \* an exception escaped to the script runner

vars == <<all_checked, nifty_50_checked, nifty_100_checked, nifty_200_checked,
          nifty_500_checked, nifty_defense_checked, available, search_input,
          selected_stock, suggestions, stock_to_plot, validation_error,
          tagged, fetch_args, download, plot_outcome, fetch_result,
          plot_calls, image_shown, error_shown, crashed>>

----------------------------------------------------------------------------
(* Bounds of the model *)

MaxRows == 11
MaxTail == 2

----------------------------------------------------------------------------
(* Python str operations *)

UpperCase == <<"A","B","C","D","E","F","G","H","I","J","K","L","M",
               "N","O","P","Q","R","S","T","U","V","W","X","Y","Z">>
LowerCase == <<"a","b","c","d","e","f","g","h","i","j","k","l","m",
               "n","o","p","q","r","s","t","u","v","w","x","y","z">>
\* characters in code point order
CodeOrder == <<" ", ".">> \o UpperCase \o LowerCase

Ord(c) == CHOOSE i \in 1..Len(CodeOrder) : CodeOrder[i] = c

IsSpace(c) == c = " "

UpperChar(c) ==
    IF \E i \in 1..26 : LowerCase[i] = c
    THEN UpperCase[CHOOSE i \in 1..26 : LowerCase[i] = c]
    ELSE c

LowerChar(c) ==
    IF \E i \in 1..26 : UpperCase[i] = c
    THEN LowerCase[CHOOSE i \in 1..26 : UpperCase[i] = c]
    ELSE c

Upper(s) == [i \in 1..Len(s) |-> UpperChar(s[i])]
Lower(s) == [i \in 1..Len(s) |-> LowerChar(s[i])]

Strip(s) ==
    LET keep == {i \in 1..Len(s) : ~IsSpace(s[i])}
    IN  IF keep = {} THEN <<>>
        ELSE LET lo == CHOOSE i \in keep : \A j \in keep : i <= j
                 hi == CHOOSE i \in keep : \A j \in keep : j <= i
             IN  SubSeq(s, lo, hi)

EndsWith(s, suf) ==
    /\ Len(suf) <= Len(s)
    /\ SubSeq(s, Len(s) - Len(suf) + 1, Len(s)) = suf

\* positions (0-based offsets) at which sub occurs in s
Occurrences(sub, s) ==
    {i \in 0..(Len(s) - Len(sub)) : SubSeq(s, i + 1, i + Len(sub)) = sub}

\* Python's `sub in s`
Contains(sub, s) == Occurrences(sub, s) # {}

\* Python's s.split(sep)[0]: the text before the first occurrence of sep
SplitFirst(s, sep) ==
    LET occ == Occurrences(sep, s)
    IN  IF occ = {} THEN s
        ELSE SubSeq(s, 1, CHOOSE i \in occ : \A j \in occ : i <= j)

\* Python's str ordering, a < b
RECURSIVE StrLess(_, _)
StrLess(a, b) ==
    IF a = <<>> THEN b # <<>>
    ELSE IF b = <<>> THEN FALSE
    ELSE IF a[1] # b[1] THEN Ord(a[1]) < Ord(b[1])
    ELSE StrLess(Tail(a), Tail(b))

\* Python's sorted() over a collection of distinct strings
RECURSIVE Sorted(_)
Sorted(S) ==
    IF S = {} THEN <<>>
    ELSE LET m == CHOOSE x \in S : \A y \in S \ {x} : StrLess(x, y)
         IN  <<m>> \o Sorted(S \ {m})

Range(seq) == {seq[i] : i \in 1..Len(seq)}

NS == <<".", "N", "S">>

----------------------------------------------------------------------------
(* stock_symbols: the index catalog imported at line 8 *)

TCS  == <<"T","C","S",".","N","S">>
BEL  == <<"B","E","L",".","N","S">>
ITC  == <<"I","T","C",".","N","S">>
BELX == <<"B","E","L","X",".","N","S">>
HAL  == <<"H","A","L",".","N","S">>

nifty_50  == {TCS}
nifty_100 == {TCS, BEL}
nifty_200 == {TCS, BEL, ITC}
nifty_500 == {TCS, BEL, ITC, BELX}
nifty_defense_stocks == {BEL, HAL}

----------------------------------------------------------------------------
(* Provider data: a frame is a sequence of rows, a row maps a column name  *)
(* to a cell, a cell is a number, a numeric string, another string or NaN. *)

Num(v)    == [kind |-> "num", v |-> v]
NumStr(v) == [kind |-> "numstr", v |-> v]
Str       == [kind |-> "str", v |-> 0]
NaN       == [kind |-> "nan", v |-> 0]

Columns == {"Open", "High", "Low", "Close", "Volume"}

\* a row whose five cells are all the number c
PlainRow(c) == [col \in Columns |-> Num(c)]

\* the rows a frame may end with
TailRows ==
    { PlainRow(250), PlainRow(7), PlainRow(0), PlainRow(-5),
      [PlainRow(999) EXCEPT !["Close"] = Str],
      [PlainRow(998) EXCEPT !["Open"] = NaN],
      [PlainRow(31) EXCEPT !["Volume"] = NaN],
      [PlainRow(42) EXCEPT !["Close"] = NumStr(42)] }

RECURSIVE SeqsUpTo(_, _)
SeqsUpTo(S, n) ==
    IF n = 0 THEN {<<>>}
    ELSE LET shorter == SeqsUpTo(S, n - 1)
         IN  shorter \cup {Append(q, x) : q \in shorter, x \in S}

\* k plain rows with closes 101, 102, ... followed by the given tail
Frame(k, tail) == [i \in 1..k |-> PlainRow(100 + i)] \o tail

Frames == {Frame(k, tail) : k \in 0..MaxRows, tail \in SeqsUpTo(TailRows, MaxTail)}

Timeout == <<"t","i","m","e","o","u","t">>

\* outcome of yf.download: it raises (with str(e) = detail) or returns a frame
Raises(detail) == [raises |-> TRUE, detail |-> detail, frame |-> <<>>]
Returns(frame) == [raises |-> FALSE, detail |-> <<>>, frame |-> frame]

Downloads == {Raises(<<>>), Raises(Timeout)} \cup {Returns(f) : f \in Frames}

\* outcome of mpf.plot followed by savefig: the image is produced or it raises
PlotOk == [raises |-> FALSE, detail |-> <<>>]
PlotRaises == [raises |-> TRUE, detail |-> Timeout]
PlotOutcomes == {PlotOk, PlotRaises}

----------------------------------------------------------------------------
(* fetch_and_plot_renko *)

None == <<>>
Some(x) == <<x>>

MinRows == 10

\* a brick of 10% instead of 1%
calculate_brick_size_TenPercent(current_price) == [num |-> current_price * 1, den |-> 10]

calculate_brick_size(current_price) == [num |-> current_price * 1, den |-> 100]

ohlc_cols == {"Open", "High", "Low", "Close"}

\* data[[col for col in ohlc_cols if col in data.columns]]
KeepOHLC(frame) ==
    [i \in 1..Len(frame) |-> [col \in ohlc_cols \cap DOMAIN frame[i] |-> frame[i][col]]]

\* pd.to_numeric(errors="coerce") on one cell
ToNumeric(cell) == IF cell.kind \in {"num", "numstr"} THEN Num(cell.v) ELSE NaN

HasNa(row) == \E col \in DOMAIN row : row[col].kind = "nan"

\* the coercion without the dropna()
Clean_NoDropna(frame) ==
    [i \in 1..Len(frame) |->
        [col \in DOMAIN frame[i] |-> ToNumeric(frame[i][col])]]

\* data.apply(pd.to_numeric, errors="coerce").dropna()
Clean(frame) ==
    LET numeric == [i \in 1..Len(frame) |->
                       [col \in DOMAIN frame[i] |-> ToNumeric(frame[i][col])]]
        ok(row) == ~HasNa(row)
    IN  SelectSeq(numeric, ok)

NoDataMsg(ticker) ==
    <<"N","o"," ","d","a","t","a"," ","f","o","r"," ">> \o ticker

NotEnoughPrefix ==
    <<"N","o","t"," ","e","n","o","u","g","h"," ","v","a","l","i","d"," ",
      "d","a","t","a"," ","f","o","r"," ">>

NotEnoughMsg(ticker) == NotEnoughPrefix \o ticker

ErrorMsg(ticker, detail) ==
    <<"E","r","r","o","r"," ","f","o","r"," ">> \o ticker \o <<":"," ">> \o detail

\* the chart component of the pair returned on success
Png == "png"

\* the body of the try block: it returns a pair or raises
TryBody(ticker, dl, plot) ==
    IF dl.raises
    THEN [raised |-> TRUE, detail |-> dl.detail, ret |-> <<None, None>>, plots |-> <<>>]
    ELSE IF dl.frame = <<>>
    THEN [raised |-> FALSE, detail |-> <<>>,
          ret |-> <<None, Some(NoDataMsg(ticker))>>, plots |-> <<>>]
    ELSE LET data == Clean(KeepOHLC(dl.frame))
         IN  IF data = <<>> \/ Len(data) < MinRows
             THEN [raised |-> FALSE, detail |-> <<>>,
                   ret |-> <<None, Some(NotEnoughMsg(ticker))>>, plots |-> <<>>]
             ELSE LET current_price == data[Len(data)]["Close"].v
                      brick_size == calculate_brick_size(current_price)
                      call == [data |-> data, brick_size |-> brick_size]
                  IN  IF plot.raises
                      THEN [raised |-> TRUE, detail |-> plot.detail,
                            ret |-> <<None, None>>, plots |-> <<call>>]
                      ELSE [raised |-> FALSE, detail |-> <<>>,
                            ret |-> <<Some(Png), None>>, plots |-> <<call>>]

\* the body without the except clause
fetch_and_plot_renko_NoExcept(ticker, dl, plot) == TryBody(ticker, dl, plot)

\* try: ... except Exception as e: return None, f"Error for {ticker}: {str(e)}"
fetch_and_plot_renko(ticker, dl, plot) ==
    LET body == TryBody(ticker, dl, plot)
    IN  IF body.raised
        THEN [raised |-> FALSE, detail |-> <<>>,
              ret |-> <<None, Some(ErrorMsg(ticker, body.detail))>>,
              plots |-> body.plots]
        ELSE body

----------------------------------------------------------------------------
(* Inputs of the page model *)

PadBel  == <<" ","b","e","l"," ">>
Zz      == <<"Z","Z">>
Blanks  == <<" "," ">>
Tc      == <<"t","c">>
HalNsX  == <<"H","A","L",".","N","S","X">>

SearchTexts == {<<>>, PadBel, BEL, Zz, Blanks, Tc, HalNsX, NS}

\* what the provider and the renderer may do during one run of the page:
\* pairs of a download outcome and a plot outcome
PageOutcomes ==
    { <<Raises(Timeout), PlotOk>>,
      <<Returns(Frame(MinRows - 1, <<PlainRow(250)>>)), PlotOk>>,
      <<Returns(Frame(MinRows - 1, <<[PlainRow(999) EXCEPT !["Close"] = Str]>>)), PlotOk>> }

----------------------------------------------------------------------------
(* The page script, lines 64-201.  cb is the record of the six checkboxes. *)

Boxes(a, n50, n100, n200, n500, nd) ==
    [all |-> a, n50 |-> n50, n100 |-> n100, n200 |-> n200, n500 |-> n500, nd |-> nd]

index_selected(cb) ==
    cb.n50 \/ cb.n100 \/ cb.n200 \/ cb.n500 \/ cb.nd \/ cb.all

\* "All" does not bring in the Nifty Defense members
available_stocks_DefenseNotInAll(cb) ==
    (IF cb.all \/ cb.n50 THEN nifty_50 ELSE {})
    \cup (IF cb.all \/ cb.n100 THEN nifty_100 ELSE {})
    \cup (IF cb.all \/ cb.n200 THEN nifty_200 ELSE {})
    \cup (IF cb.all \/ cb.n500 THEN nifty_500 ELSE {})
    \cup (IF cb.nd THEN nifty_defense_stocks ELSE {})

available_stocks(cb) ==
    (IF cb.all \/ cb.n50 THEN nifty_50 ELSE {})
    \cup (IF cb.all \/ cb.n100 THEN nifty_100 ELSE {})
    \cup (IF cb.all \/ cb.n200 THEN nifty_200 ELSE {})
    \cup (IF cb.all \/ cb.n500 THEN nifty_500 ELSE {})
    \cup (IF cb.all \/ cb.nd THEN nifty_defense_stocks ELSE {})

\* lines 153-155
Normalize(text) ==
    LET t == Upper(Strip(text))
    IN  IF t # <<>> /\ ~EndsWith(t, NS) THEN t \o NS ELSE t

\* the whole normalized term is searched for, suffix included
Matches_WholeTerm(cb, search_term) ==
    {stock \in available_stocks(cb) : Contains(Lower(search_term), Lower(stock))}

\* the stock symbol is not lowercased before the test
Matches_CaseSensitive(cb, search_term) ==
    {stock \in available_stocks(cb) :
        Contains(Lower(SplitFirst(search_term, NS)), stock)}

\* line 159
Matches(cb, search_term) ==
    {stock \in available_stocks(cb) :
        Contains(Lower(SplitFirst(search_term, NS)), Lower(stock))}

\* lines 158-166: the suggestion buttons drawn, in order
SuggestionButtons(cb, search_term) ==
    IF index_selected(cb) /\ search_term # <<>>
    THEN Sorted(Matches(cb, search_term))
    ELSE <<>>

\* the search term takes precedence over the selection
ResolveStock_TermFirst(sel, search_term) == IF search_term # <<>> THEN search_term ELSE sel

\* line 170
ResolveStock(sel, search_term) == IF sel # <<>> THEN sel ELSE search_term

\* the membership test applied even when no index is selected
Invalid_AlwaysValidated(cb, stock) == stock \notin available_stocks(cb)

\* line 172
Invalid(cb, stock) == index_selected(cb) /\ stock \notin available_stocks(cb)

\* lines 176-186
IndicesOf(stock) ==
    (IF stock \in nifty_50 THEN <<"Nifty 50">> ELSE <<>>)
    \o (IF stock \in nifty_100 THEN <<"Nifty 100">> ELSE <<>>)
    \o (IF stock \in nifty_200 THEN <<"Nifty 200">> ELSE <<>>)
    \o (IF stock \in nifty_500 THEN <<"Nifty 500">> ELSE <<>>)
    \o (IF stock \in nifty_defense_stocks THEN <<"Nifty Defense">> ELSE <<>>)

\* what one run draws when nothing is fetched
Blank ==
    [stock |-> <<>>, invalid |-> FALSE, tagged |-> None, args |-> <<>>,
     dl |-> None, plot |-> None, ret |-> <<None, None>>, plots |-> <<>>,
     image |-> FALSE, error |-> None, crashed |-> FALSE]

\* lines 169-201
Display(cb, sel, search_term, dl, plot) ==
    IF ~(search_term # <<>> \/ sel # <<>>) THEN Blank
    ELSE LET stock == ResolveStock(sel, search_term)
         IN  IF Invalid(cb, stock)
             THEN [Blank EXCEPT !.stock = stock, !.invalid = TRUE]
             ELSE LET r == fetch_and_plot_renko(stock, dl, plot)
                      chart == r.ret[1]
                      error == r.ret[2]
                  IN  [stock |-> stock, invalid |-> FALSE,
                       tagged |-> Some([stock |-> stock, indices |-> IndicesOf(stock)]),
                       args |-> <<stock>>, dl |-> Some(dl), plot |-> Some(plot),
                       ret |-> r.ret, plots |-> r.plots,
                       image |-> ~r.raised /\ chart # None,
                       error |-> IF ~r.raised /\ chart = None THEN error ELSE None,
                       crashed |-> r.raised]

\* the run reaches line 196
Fetches(cb, sel, search_term) ==
    /\ search_term # <<>> \/ sel # <<>>
    /\ ~Invalid(cb, ResolveStock(sel, search_term))

\* one top-to-bottom run of the script with the given widget and session
\* state; the provider and the renderer are consulted only at line 196
RunWith(cb, text, sel, outcomes) ==
    \E search_term \in {Normalize(text)} :
    \E o \in IF Fetches(cb, sel, search_term) THEN outcomes ELSE {<<Returns(<<>>), PlotOk>>} :
    \E d \in {Display(cb, sel, search_term, o[1], o[2])} :
        /\ all_checked' = cb.all
        /\ nifty_50_checked' = cb.n50
        /\ nifty_100_checked' = cb.n100
        /\ nifty_200_checked' = cb.n200
        /\ nifty_500_checked' = cb.n500
        /\ nifty_defense_checked' = cb.nd
        /\ available' = available_stocks(cb)
        /\ search_input' = text
        /\ selected_stock' = sel
        /\ suggestions' = SuggestionButtons(cb, search_term)
        /\ stock_to_plot' = d.stock
        /\ validation_error' = d.invalid
        /\ tagged' = d.tagged
        /\ fetch_args' = d.args
        /\ download' = d.dl
        /\ plot_outcome' = d.plot
        /\ fetch_result' = d.ret
        /\ plot_calls' = d.plots
        /\ image_shown' = d.image
        /\ error_shown' = d.error
        /\ crashed' = d.crashed

Run(cb, text, sel) == RunWith(cb, text, sel, PageOutcomes)

Current ==
    Boxes(all_checked, nifty_50_checked, nifty_100_checked, nifty_200_checked,
          nifty_500_checked, nifty_defense_checked)

----------------------------------------------------------------------------
(* The session: the state after the first run, and one action per          *)
(* interaction.  Every interaction reruns the whole script.                *)

Init ==
    /\ all_checked = FALSE
    /\ nifty_50_checked = FALSE
    /\ nifty_100_checked = FALSE
    /\ nifty_200_checked = FALSE
    /\ nifty_500_checked = FALSE
    /\ nifty_defense_checked = FALSE
    /\ available = {}
    /\ search_input = <<>>
    /\ selected_stock = <<>>
    /\ suggestions = <<>>
    /\ stock_to_plot = <<>>
    /\ validation_error = FALSE
    /\ tagged = None
    /\ fetch_args = <<>>
    /\ download = None
    /\ plot_outcome = None
    /\ fetch_result = <<None, None>>
    /\ plot_calls = <<>>
    /\ image_shown = FALSE
    /\ error_shown = None
    /\ crashed = FALSE

\* the "All" checkbox is toggled; the other five take value=all_checked anew
ToggleAll ==
    LET a == ~all_checked
    IN  Run(Boxes(a, a, a, a, a, a), search_input, selected_stock)

Toggle50 ==
    Run([Current EXCEPT !.n50 = ~nifty_50_checked],
            search_input, selected_stock)

Toggle100 ==
    Run([Current EXCEPT !.n100 = ~nifty_100_checked],
            search_input, selected_stock)

Toggle200 ==
    Run([Current EXCEPT !.n200 = ~nifty_200_checked],
            search_input, selected_stock)

Toggle500 ==
    Run([Current EXCEPT !.n500 = ~nifty_500_checked],
            search_input, selected_stock)

ToggleDefense ==
    Run([Current EXCEPT !.nd = ~nifty_defense_checked],
            search_input, selected_stock)

\* an edit of the search box also clears the selection
EditSearch_ClearsSelection ==
    \E text \in SearchTexts \ {search_input} :
        Run(Current, text, <<>>)

\* the user replaces the text of the search box
EditSearch ==
    \E text \in SearchTexts \ {search_input} :
        Run(Current, text, selected_stock)

\* text held by the search box after selected_stock became s: the widget's
\* value= argument changed, which resets it or not depending on the library
TextAfterClick(s) ==
    IF s = selected_stock THEN {search_input} ELSE {search_input, s}

\* a suggestion button is clicked: line 164 stores it, line 165 reruns
ClickSuggestion ==
    \E s \in Range(suggestions) :
        \E text \in TextAfterClick(s) :
            Run(Current, text, s)

Next ==
    \/ ToggleAll
    \/ Toggle50
    \/ Toggle100
    \/ Toggle200
    \/ Toggle500
    \/ ToggleDefense
    \/ EditSearch
    \/ ClickSuggestion

Spec == Init /\ [][Next]_vars

----------------------------------------------------------------------------
(* One display of a typed ticker with no index filter: the provider and   *)
(* renderer outcomes are drawn at the start from the full set, and one     *)
(* edit of the search box runs the page, which calls fetch_and_plot_renko. *)

TickerTexts == {BEL, Zz}

InitFetch ==
    /\ all_checked = FALSE
    /\ nifty_50_checked = FALSE
    /\ nifty_100_checked = FALSE
    /\ nifty_200_checked = FALSE
    /\ nifty_500_checked = FALSE
    /\ nifty_defense_checked = FALSE
    /\ available = {}
    /\ search_input = <<>>
    /\ selected_stock = <<>>
    /\ suggestions = <<>>
    /\ stock_to_plot = <<>>
    /\ validation_error = FALSE
    /\ tagged = None
    /\ fetch_args = <<>>
    /\ download \in {Some(dl) : dl \in Downloads}
    /\ plot_outcome \in {Some(plot) : plot \in PlotOutcomes}
    /\ fetch_result = <<None, None>>
    /\ plot_calls = <<>>
    /\ image_shown = FALSE
    /\ error_shown = None
    /\ crashed = FALSE

CallFetch ==
    /\ fetch_args = <<>>
    /\ \E text \in TickerTexts :
        RunWith(Current, text, selected_stock, {<<download[1], plot_outcome[1]>>})

NextFetch == CallFetch

SpecFetch == InitFetch /\ [][NextFetch]_vars

----------------------------------------------------------------------------
(* Properties *)

AnyFilter ==
    \/ all_checked \/ nifty_50_checked \/ nifty_100_checked
    \/ nifty_200_checked \/ nifty_500_checked \/ nifty_defense_checked

Trigger == Normalize(search_input) # <<>> \/ selected_stock # <<>>

\* C1: on every display trigger, if an index filter is active and the
\* resolved ticker is not in available_stocks, the validation error is shown,
\* fetch_and_plot_renko is not called and no chart is shown; in every other
\* case there is no validation error and fetch_and_plot_renko is called
\* exactly once, with the resolved ticker.
C1_Validation ==
    Trigger =>
        /\ stock_to_plot # <<>>
        /\ IF AnyFilter /\ stock_to_plot \notin available
           THEN validation_error /\ fetch_args = <<>> /\ ~image_shown
                /\ plot_calls = <<>> /\ error_shown = None
           ELSE ~validation_error /\ fetch_args = <<stock_to_plot>>

\* filter = Nifty Defense only, search = a ticker outside that basket
C1_Witness ==
    /\ nifty_defense_checked /\ ~all_checked /\ ~nifty_50_checked
    /\ ~nifty_100_checked /\ ~nifty_200_checked /\ ~nifty_500_checked
    /\ selected_stock = <<>> /\ search_input = Tc
    /\ validation_error /\ fetch_args = <<>>

IndexSets == <<nifty_50, nifty_100, nifty_200, nifty_500, nifty_defense_stocks>>

CheckedIndices ==
    {i \in 1..5 :
        <<nifty_50_checked, nifty_100_checked, nifty_200_checked,
          nifty_500_checked, nifty_defense_checked>>[i]}

\* C2: for every assignment of the six checkboxes, available_stocks is the
\* union of the member sets of the checked indices (empty when none is
\* checked), and it is the union of all five sets whenever "All" is checked.
C2_Union ==
    /\ all_checked => available = UNION {IndexSets[i] : i \in 1..5}
    /\ ~all_checked => available = UNION {IndexSets[i] : i \in CheckedIndices}

\* "All" is checked and Nifty Defense was unchecked afterwards
C2_Witness ==
    /\ all_checked /\ ~nifty_defense_checked /\ ~nifty_500_checked
    /\ HAL \in available /\ BELX \in available

\* C3: fetch_and_plot_renko never lets a fault escape: whatever the provider
\* and the renderer do, it returns (image, None) or (None, message) with a
\* non-empty message containing the ticker, and the page shows the image or
\* that message, never both and never neither.
C3_NoFault ==
    fetch_args # <<>> =>
        /\ ~crashed
        /\ \/ /\ fetch_result[1] # None /\ fetch_result[2] = None
              /\ image_shown /\ error_shown = None
           \/ /\ fetch_result[1] = None /\ fetch_result[2] # None
              /\ fetch_result[2][1] # <<>>
              /\ Contains(fetch_args[1], fetch_result[2][1])
              /\ ~image_shown /\ error_shown = fetch_result[2]

\* the renderer raised and the page shows the message instead
C3_Witness ==
    /\ fetch_args # <<>> /\ plot_calls # <<>> /\ plot_outcome = Some(PlotRaises)
    /\ ~image_shown /\ error_shown # None

\* rows of a provider frame whose four OHLC cells are numbers or numeric text
ValidRows(frame) ==
    {i \in 1..Len(frame) :
        \A col \in {"Open", "High", "Low", "Close"} :
            frame[i][col].kind = "num" \/ frame[i][col].kind = "numstr"}

Returned == fetch_args # <<>> /\ ~download[1].raises

\* C4 as stated: whenever fewer than 10 rows are left after cleaning, the
\* result is the "Not enough valid data" error.
C4_Original ==
    (Returned /\ Cardinality(ValidRows(download[1].frame)) < 10) =>
        fetch_result = <<None, Some(NotEnoughMsg(fetch_args[1]))>>

\* C4 (amended): for a non-empty provider result with fewer than 10 rows left
\* after cleaning, the result is the "Not enough valid data" error, no image
\* is produced and the renderer is not reached; with 10 or more clean rows
\* that error is not returned.
C4_Insufficient ==
    (Returned /\ download[1].frame # <<>>) =>
        IF Cardinality(ValidRows(download[1].frame)) < 10
        THEN /\ fetch_result = <<None, Some(NotEnoughMsg(fetch_args[1]))>>
             /\ plot_calls = <<>> /\ ~image_shown
        ELSE /\ fetch_result[2] # Some(NotEnoughMsg(fetch_args[1]))
             /\ plot_calls # <<>>

\* eleven provider rows, two of them dropped by the cleaning
C4_Witness ==
    /\ Returned /\ Len(download[1].frame) = 11
    /\ Cardinality(ValidRows(download[1].frame)) = 9
    /\ fetch_result = <<None, Some(NotEnoughMsg(fetch_args[1]))>>

\* close of the last provider row that survives the cleaning
LastValidClose(frame) ==
    LET valid == ValidRows(frame)
        last == CHOOSE i \in valid : \A j \in valid : j <= i
    IN  frame[last]["Close"].v

\* C5: if the close of the final bar of the cleaned sequence is <= 0, the
\* request fails and the renderer is never called with a zero or negative
\* brick size.
C5_InvalidPrice ==
    /\ (Returned /\ ValidRows(download[1].frame) # {}
            /\ LastValidClose(download[1].frame) <= 0)
        => fetch_result[1] = None /\ plot_calls = <<>>
    /\ \A i \in 1..Len(plot_calls) :
        plot_calls[i].brick_size.num > 0 /\ plot_calls[i].brick_size.den > 0

\* C6: whenever the renderer is reached, the brick size it receives is
\* exactly 1% of the close of the last row that survived the cleaning (not of
\* the last provider row), and it is positive whenever that close is.
C6_BrickSize ==
    \A i \in 1..Len(plot_calls) :
        LET b == plot_calls[i].brick_size
            close == LastValidClose(download[1].frame)
        IN  /\ b.den > 0
            /\ b.num * 100 = close * b.den
            /\ close > 0 => b.num > 0

\* the renderer is reached although the provider's last row was dropped
C6_Witness ==
    /\ plot_calls # <<>>
    /\ Len(download[1].frame) \notin ValidRows(download[1].frame)
    /\ LastValidClose(download[1].frame) = 250

IsSortedSeq(q) == \A i, j \in 1..Len(q) : i < j => StrLess(q[i], q[j])

\* the search text trimmed, uppercased and suffixed with ".NS" if missing
NormalizedTerm ==
    LET t == Upper(Strip(search_input))
    IN  IF t = <<>> \/ EndsWith(t, NS) THEN t ELSE t \o NS

\* the normalized term cut at its first ".NS"
BareTerm ==
    LET t == NormalizedTerm
        cut == CHOOSE k \in 0..(Len(t) - 3) :
                   /\ SubSeq(t, k + 1, k + 3) = NS
                   /\ \A m \in 0..(k - 1) : SubSeq(t, m + 1, m + 3) # NS
    IN  SubSeq(t, 1, cut)

\* C7 as stated: with a filter active and a non-empty search text, the
\* suggestions are the members of available_stocks containing the normalized
\* term, case-insensitively, in lexicographic order; otherwise there are none.
C7_Original ==
    IF AnyFilter /\ search_input # <<>>
    THEN /\ Range(suggestions) =
                {s \in available : Contains(Lower(NormalizedTerm), Lower(s))}
         /\ IsSortedSeq(suggestions)
    ELSE suggestions = <<>>

\* C7 (amended): with a filter active and a non-empty normalized term, the
\* suggestions are the members of available_stocks containing, case-
\* insensitively, the normalized term cut at its first ".NS", in
\* lexicographic order; with no filter or an empty normalized term there are
\* none.
C7_Suggestions ==
    IF AnyFilter /\ NormalizedTerm # <<>>
    THEN /\ Range(suggestions) =
                {s \in available : Contains(Lower(BareTerm), Lower(s))}
         /\ IsSortedSeq(suggestions)
    ELSE suggestions = <<>>

\* a term that has text after its first ".NS" still finds HAL.NS
C7_Witness ==
    /\ nifty_defense_checked /\ search_input = HalNsX
    /\ suggestions = <<HAL>>

\* C8: for a term typed without the market suffix, the suggestions are all
\* members of available_stocks containing the bare term, including those
\* where more characters follow the term before the suffix, in sorted order;
\* a term contained in no member gives no suggestions.
C8_BareTerm ==
    LET t == Strip(search_input)
    IN  (t # <<>> /\ ~Contains(NS, Upper(t))) =>
            /\ \A s \in available :
                   Contains(Lower(t), Lower(s)) <=> s \in Range(suggestions)
            /\ Range(suggestions) \subseteq available
            /\ IsSortedSeq(suggestions)
            /\ (search_input = PadBel /\ {BEL, BELX} \subseteq available)
                   => suggestions = <<BEL, BELX>>
            /\ search_input = Zz => suggestions = <<>>

\* "bel" over a filter set containing BEL.NS and BELX.NS
C8_Witness ==
    /\ search_input = PadBel /\ nifty_500_checked /\ ~all_checked
    /\ suggestions = <<BEL, BELX>>

\* a step that changes a checkbox
ToggleStep ==
    \/ all_checked' # all_checked
    \/ nifty_50_checked' # nifty_50_checked
    \/ nifty_100_checked' # nifty_100_checked
    \/ nifty_200_checked' # nifty_200_checked
    \/ nifty_500_checked' # nifty_500_checked
    \/ nifty_defense_checked' # nifty_defense_checked

\* a step in which the user types a new search text
EditStep == search_input' # search_input /\ search_input' # selected_stock'

\* C9: selected_stock starts empty, changes only in a suggestion click, is
\* then the clicked suggestion, a member of available_stocks at that moment,
\* never becomes empty again, and is left alone by toggles and edits.
C9_Selection ==
    /\ selected_stock = <<>>
    /\ [][ /\ selected_stock' # selected_stock =>
                /\ ClickSuggestion
                /\ selected_stock' \in Range(suggestions)
                /\ selected_stock' \in available
                /\ selected_stock' \in available_stocks(Current)
           /\ selected_stock # <<>> => selected_stock' # <<>>
           /\ (ToggleStep \/ EditStep) => selected_stock' = selected_stock
         ]_vars

\* a suggestion was clicked and the search text was edited afterwards
C9_Witness ==
    /\ selected_stock = BEL /\ search_input = Zz /\ ~AnyFilter

ShownFor(stock) ==
    /\ stock_to_plot = stock
    /\ fetch_args = <<>> \/ fetch_args = <<stock>>
    /\ tagged = None \/ tagged[1].stock = stock

\* C10: while selected_stock is non-empty it, and not the search text, is the
\* ticker validated, reported and fetched; a step that leaves selected_stock
\* alone does not change the ticker charted; the search text is the resolved
\* ticker only while selected_stock is empty.
C10_Resolved ==
    /\ [](selected_stock # <<>> => ShownFor(selected_stock))
    /\ []((selected_stock = <<>> /\ Normalize(search_input) # <<>>)
             => ShownFor(Normalize(search_input)))
    /\ []((stock_to_plot # <<>> /\ stock_to_plot # selected_stock)
             => selected_stock = <<>>)
    /\ [][(selected_stock # <<>> /\ selected_stock' = selected_stock)
             => stock_to_plot' = stock_to_plot]_vars

\* BEL.NS was clicked, the text now reads TC, and BEL.NS is what is fetched
C10_Witness ==
    /\ selected_stock = BEL /\ search_input = Tc /\ fetch_args = <<BEL>>

====
